---- MODULE Spec2Model ----
(***************************************************************************)
(* Model of augur/tasks/util/collection_util.py: the collection-status     *)
(* outcome handlers (task_failed, core/secondary/facade_task_success) and  *)
(* the AugurTaskRoutine chain orchestrator.                                *)
(***************************************************************************)
EXTENDS Integers, Sequences, FiniteSets, TLC

VARIABLES
    collection_status,  \* the collection_status table: repo_git -> row
    now,                \* the wall clock, in ticks (TicksPerSecond per second)
    last,               \* the most recent handler invocation and how it ended
    worker,             \* the concurrent success-handler invocations (worker -> task)
    routine,            \* the AugurTaskRoutine instance: repos, collection_phases, jobs_dict
    gen,                \* the generator start_data_collection(): its position and yields
    chains,             \* the engine: task_id -> dispatched chain
    caller,             \* the caller driving the generator: what it still has to record
    registry,           \* several routines and the list objects their phase lists refer to
    estimate            \* the repository being weighed and the weight computed for it

vars == <<collection_status, now, last, worker, routine, gen, chains, caller,
          registry, estimate>>

----------------------------------------------------------------------------
(* Bounds *)

MaxTime == 2        \* the clock advances at most this many ticks
MaxTaskIds == 2     \* task ids 1..MaxTaskIds may already sit in rows of the table
MaxPhases == 2      \* a phase list passed to __init__ has at most this many phases
MaxSetItems == 1    \* at most this many __setitem__ calls on the routine

----------------------------------------------------------------------------
(* Values *)

None == "None"

\* class CollectionState(Enum)
CollectionState ==
    [SUCCESS |-> "Success", PENDING |-> "Pending", ERROR |-> "Error",
     COLLECTING |-> "Collecting", UPDATE |-> "Update",
     FAILED_CLONE |-> "Failed Clone"]

Tracks == {"core", "secondary", "facade"}

\* The columns of one collection_status row, per track.
StatusCol(t) ==
    CASE t = "core" -> "core_status"
      [] t = "secondary" -> "secondary_status"
      [] t = "facade" -> "facade_status"

TaskIdCol(t) ==
    CASE t = "core" -> "core_task_id"
      [] t = "secondary" -> "secondary_task_id"
      [] t = "facade" -> "facade_task_id"

LastCollectedCol(t) ==
    CASE t = "core" -> "core_data_last_collected"
      [] t = "secondary" -> "secondary_data_last_collected"
      [] t = "facade" -> "facade_data_last_collected"

\* The attributes of the imported ORM class CollectionStatus (the persisted
\* schema plus the relationship to Repo).
CollectionStatusAttrs ==
    {"repo_id", "repo"}
    \cup {StatusCol(t) : t \in Tracks}
    \cup {TaskIdCol(t) : t \in Tracks}
    \cup {LastCollectedCol(t) : t \in Tracks}

\* The names bound in the module's global namespace once it is imported:
\* the imports of lines 1-23 and the module's own classes and functions.
ModuleNames ==
    {"annotations", "List", "time", "logging", "json", "os", "Enum", "math",
     "np", "datetime", "signature", "group", "chain", "chord", "or_", "and_",
     "AugurLogger", "celery", "CollectionStatus", "Repo",
     "execute_session_query", "AugurConfig", "get_owner_repo",
     "GitHubRepoGraphql", "GraphQlPageCollection", "GithubTaskManifest",
     "CollectionState", "get_enabled_phase_names_from_config",
     "get_collection_status_repo_git_from_filter", "task_failed",
     "core_task_success", "secondary_task_success", "date_weight_factor",
     "get_repo_weight_by_issue", "facade_task_success",
     "get_repo_weight_by_commit", "AugurTaskRoutine"}

\* Looking a global name up at call time: unbound names raise NameError.
Bound(name) == name \in ModuleNames

\* The Repo table: the repositories that exist.  "r0" exists but owns no
\* collection_status row; "rX" does not exist.
RepoTable == {"r0", "r1", "r2"}
WithStatus == {"r1", "r2"}
RepoGits == RepoTable \cup {"rX"}

\* Task ids are the engine's opaque strings; the n-th one it hands out.
TaskIdNames == <<"id1", "id2", "id3", "id4", "id5", "id6", "id7", "id8">>
TaskId(n) == TaskIdNames[n]
TaskIds == {TaskId(n) : n \in 1..MaxTaskIds}

\* datetime.datetime.now().strftime('%Y-%m-%d %H:%M:%S'): the clock reading
\* cut to whole seconds, as a string.
TicksPerSecond == 2
Seconds == <<"00:00:00", "00:00:01", "00:00:02", "00:00:03", "00:00:04">>
Strftime(t) == Seconds[(t \div TicksPerSecond) + 1]

\* A row as registration leaves it.
PendingRow ==
    [core_status |-> CollectionState.PENDING, core_task_id |-> None,
     core_data_last_collected |-> None,
     secondary_status |-> CollectionState.PENDING, secondary_task_id |-> None,
     secondary_data_last_collected |-> None,
     facade_status |-> CollectionState.PENDING, facade_task_id |-> None,
     facade_data_last_collected |-> None]

\* A track that holds task id i is Collecting; one that holds none is Pending.
RowWith(c, s, f) ==
    [core_status |-> IF c = None THEN CollectionState.PENDING
                     ELSE CollectionState.COLLECTING,
     core_task_id |-> c, core_data_last_collected |-> None,
     secondary_status |-> IF s = None THEN CollectionState.PENDING
                          ELSE CollectionState.COLLECTING,
     secondary_task_id |-> s, secondary_data_last_collected |-> None,
     facade_status |-> IF f = None THEN CollectionState.PENDING
                       ELSE CollectionState.COLLECTING,
     facade_task_id |-> f, facade_data_last_collected |-> None]

----------------------------------------------------------------------------
(* The outcome handlers *)

\* What a handler invocation leaves behind: the table, the exception that
\* left the handler (None when it returned) and the request's chain.
Outcome(cs, exc, ch) == [cs |-> cs, exc |-> exc, chain |-> ch]

\* request.chain = None (lines 72-78): an AttributeError is passed over.
TruncateChain(request) ==
    IF request.chain = "NoAttr" THEN "NoAttr" ELSE None

\* execute_session_query(query,'one') over the rows one of whose task ids is
\* request.id (lines 64-68, 81): the row, when there is exactly one.
MatchingRows(cs, id) ==
    {r \in DOMAIN cs : \E t \in Tracks : cs[r][TaskIdCol(t)] = id}

\* Lines 86-100: each track whose task id is request.id gets
\* CollectionStatus.ERROR.value and no task id.  CollectionStatus is the row
\* class, which has no attribute ERROR: the first assignment raises.
MarkError(row, id) ==
    [c \in DOMAIN row |->
        IF \E t \in Tracks : row[TaskIdCol(t)] = id /\ c = StatusCol(t)
            THEN CollectionState.ERROR
        ELSE IF \E t \in Tracks : row[TaskIdCol(t)] = id /\ c = TaskIdCol(t)
            THEN None
        ELSE row[c]]

task_failed(cs, request) ==
    IF ~Bound("DatabaseSession")
        THEN Outcome(cs, "NameError", request.chain)               \* line 63
    ELSE LET found == MatchingRows(cs, request.id)
             ch == TruncateChain(request)                          \* lines 72-78
         IN IF Cardinality(found) # 1
                THEN Outcome(cs, None, ch)                         \* lines 80-84
            ELSE IF "ERROR" \notin CollectionStatusAttrs
                THEN Outcome(cs, "AttributeError", ch)             \* lines 88, 94, 99
            ELSE LET r == CHOOSE x \in found : TRUE
                 IN Outcome([cs EXCEPT ![r] = MarkError(cs[r], request.id)],
                            None, ch)                              \* lines 86-102

\* A faulty variant: the body wrapped in try/except, every error passed over.
task_success_swallowing(cs, t, repo_git, clock) ==
    IF ~Bound("DatabaseSession") \/ repo_git \notin RepoTable
            \/ repo_git \notin DOMAIN cs
        THEN Outcome(cs, None, None)
    ELSE Outcome([cs EXCEPT ![repo_git] =
                    [@ EXCEPT ![StatusCol(t)] = CollectionState.SUCCESS,
                              ![LastCollectedCol(t)] = Strftime(clock),
                              ![TaskIdCol(t)] = None]],
                 None, None)

\* The body shared by the three success handlers, for track t.
task_success(cs, t, repo_git, clock) ==
    IF ~Bound("DatabaseSession")
        THEN Outcome(cs, "NameError", None)               \* lines 114, 137, 177
    ELSE IF repo_git \notin RepoTable
        THEN Outcome(cs, "Exception", None)               \* lines 116-118
    ELSE IF repo_git \notin DOMAIN cs
        THEN Outcome(cs, "IndexError", None)              \* line 120
    ELSE Outcome([cs EXCEPT ![repo_git] =
                    [@ EXCEPT ![StatusCol(t)] = CollectionState.SUCCESS,
                              ![LastCollectedCol(t)] = Strftime(clock),
                              ![TaskIdCol(t)] = None]],
                 None, None)                              \* lines 122-126

core_task_success(cs, repo_git, clock) ==
    task_success(cs, "core", repo_git, clock)

secondary_task_success(cs, repo_git, clock) ==
    task_success(cs, "secondary", repo_git, clock)

facade_task_success(cs, repo_git, clock) ==
    task_success(cs, "facade", repo_git, clock)

SuccessHandler(t, cs, repo_git, clock) ==
    CASE t = "core" -> core_task_success(cs, repo_git, clock)
      [] t = "secondary" -> secondary_task_success(cs, repo_git, clock)
      [] t = "facade" -> facade_task_success(cs, repo_git, clock)

----------------------------------------------------------------------------
(* Idle values of the parts a specification leaves alone *)

NoCall == [op |-> None, arg |-> None, exc |-> None, chain |-> None,
           pre |-> <<>>]
NoWorkers == <<>>
NoRoutine == [repos |-> <<>>, collection_phases |-> <<>>, jobs_dict |-> <<>>]
NoGen == [pc |-> "created", i |-> 1, yielded |-> <<>>]
NoCaller == [pending |-> None, track |-> None, sets |-> 0]
NoRegistry == <<>>
NoEstimate == <<>>

----------------------------------------------------------------------------
(* SpecHandlers: the engine delivers success and failure signals, one      *)
(* handler invocation at a time, against any table.                        *)

\* The tables the handlers are run against: every track of every row holds
\* no task id or one of TaskIds (the same id may sit in several tracks).
TaskIdOrNone == TaskIds \cup {None}

InitTables ==
    [WithStatus -> {RowWith(c, s, f) : c \in TaskIdOrNone, s \in TaskIdOrNone,
                                       f \in TaskIdOrNone}]

\* The request of a failed task: its id (one more than TaskIds is in no
\* row) and whether it has a chain to cut.
Requests ==
    [id : {TaskId(n) : n \in 1..(MaxTaskIds + 1)}, chain : {"NoAttr", "rest"}]

InitHandlers ==
    /\ collection_status \in InitTables
    /\ now = 0
    /\ last = NoCall
    /\ worker = NoWorkers
    /\ routine = NoRoutine
    /\ gen = NoGen
    /\ chains = <<>>
    /\ caller = NoCaller
    /\ registry = NoRegistry
    /\ estimate = NoEstimate

Tick ==
    /\ now < MaxTime
    /\ now' = now + 1
    /\ UNCHANGED <<registry, estimate, collection_status, last, worker, routine, gen, chains, caller>>

\* The engine's error sink calls task_failed(request, exc, traceback).
TaskFailed(request) ==
    LET out == task_failed(collection_status, request)
    IN /\ collection_status' = out.cs
       /\ last' = [op |-> "task_failed", arg |-> request, exc |-> out.exc,
                   chain |-> out.chain, pre |-> collection_status]
       /\ UNCHANGED <<registry, estimate, now, worker, routine, gen, chains, caller>>

\* The engine runs <track>_task_success(repo_git).
TaskSuccess(t, repo_git) ==
    LET out == SuccessHandler(t, collection_status, repo_git, now)
    IN /\ collection_status' = out.cs
       /\ last' = [op |-> t, arg |-> repo_git, exc |-> out.exc,
                   chain |-> None, pre |-> collection_status]
       /\ UNCHANGED <<registry, estimate, now, worker, routine, gen, chains, caller>>

CoreTaskSuccess == \E r \in RepoGits : TaskSuccess("core", r)
SecondaryTaskSuccess == \E r \in RepoGits : TaskSuccess("secondary", r)
FacadeTaskSuccess == \E r \in RepoGits : TaskSuccess("facade", r)
TaskFailedSignal == \E q \in Requests : TaskFailed(q)

NextHandlers ==
    \/ Tick
    \/ TaskFailedSignal
    \/ CoreTaskSuccess
    \/ SecondaryTaskSuccess
    \/ FacadeTaskSuccess

SpecHandlers == InitHandlers /\ [][NextHandlers]_vars

----------------------------------------------------------------------------
(* SpecConcurrent: two success signals are delivered to two workers, which *)
(* run their handlers concurrently, each in its own session.               *)

Workers == {"w1", "w2"}

InitConcurrent ==
    /\ collection_status \in InitTables
    /\ now = 0
    /\ last = NoCall
    /\ worker \in [Workers -> [track : Tracks, repo_git : WithStatus,
                               st : {"queued"}, exc : {None}]]
    /\ routine = NoRoutine
    /\ gen = NoGen
    /\ chains = <<>>
    /\ caller = NoCaller
    /\ registry = NoRegistry
    /\ estimate = NoEstimate

\* Worker w runs its handler.  The session is opened by the handler's first
\* statement, which raises before anything is read, so the run is one step.
WorkerRun(w) ==
    LET out == SuccessHandler(worker[w].track, collection_status,
                              worker[w].repo_git, now)
    IN /\ worker[w].st = "queued"
       /\ collection_status' = out.cs
       /\ worker' = [worker EXCEPT ![w].st = IF out.exc = None THEN "returned"
                                              ELSE "raised",
                                   ![w].exc = out.exc]
       /\ UNCHANGED <<registry, estimate, now, last, routine, gen, chains, caller>>

NextConcurrent == \E w \in Workers : WorkerRun(w)

SpecConcurrent == InitConcurrent /\ [][NextConcurrent]_vars

----------------------------------------------------------------------------
(* AugurTaskRoutine: the phase registry and the generator                  *)

\* Phase constructors (functions repo_git -> task).  "A" and "A2" are two
\* functions with the same __name__.
PhaseFns == {"A", "B", "A2"}
PhaseName(phase) == IF phase = "A2" THEN "A" ELSE phase

\* A faulty variant: every assignment adds an entry, as a list of pairs would.
DictSetAppending(d, key, value) == Append(d, [key |-> key, job |-> value])

\* jobs_dict, a dict: the entries in insertion order, one per key.
DictSet(d, key, value) ==
    IF \E j \in DOMAIN d : d[j].key = key
        THEN [j \in DOMAIN d |->
                 IF d[j].key = key THEN [key |-> key, job |-> value] ELSE d[j]]
        ELSE Append(d, [key |-> key, job |-> value])

\* Lines 217-218: for phase in collection_phases: jobs_dict[phase.__name__] = phase
RECURSIVE AssembleDefaultPhases(_, _)
AssembleDefaultPhases(d, phases) ==
    IF phases = <<>> THEN d
    ELSE AssembleDefaultPhases(DictSet(d, PhaseName(Head(phases)), Head(phases)),
                               Tail(phases))

\* __init__(self, session, repos, collection_phases)
AugurTaskRoutine(repos, collection_phases) ==
    [repos |-> repos,
     collection_phases |-> collection_phases,
     jobs_dict |-> AssembleDefaultPhases(<<>>, collection_phases)]

\* __setitem__(self, key, newJobs)
SetItemOf(self, key, newJobs) ==
    [self EXCEPT !.collection_phases = Append(@, newJobs),
                 !.jobs_dict = DictSet(@, key, newJobs)]

\* A faulty variant: the sequence assembled back to front.
CollectionSequenceReversed(self, repo_git) ==
    [j \in 1..Len(self.jobs_dict) |->
        <<self.jobs_dict[Len(self.jobs_dict) + 1 - j].job, repo_git>>]

\* Lines 242-248: job(repo_git) for each item of jobs_dict, in its order.
CollectionSequence(self, repo_git) ==
    [j \in 1..Len(self.jobs_dict) |-> <<self.jobs_dict[j].job, repo_git>>]

\* A faulty variant: group(*augur_collection_sequence), the tasks side by side.
CollectionGroup(tasks) == [kind |-> "group", tasks |-> tasks]

\* Line 252: chain(*augur_collection_sequence)
CollectionChain(tasks) == [kind |-> "chain", tasks |-> tasks]

\* Line 239: session.query(Repo).filter(Repo.repo_git == repo_git).one()
\* finds the repository or raises NoResultFound.
QueryOne(repo_git) == IF repo_git \in RepoTable THEN repo_git ELSE "NoResultFound"

\* A faulty variant: a lookup that finds nothing is passed over and the loop goes on.
RECURSIVE start_data_collection_skipping(_, _)
start_data_collection_skipping(self, g) ==
    IF g.i > Len(self.repos)
        THEN [pc |-> "exhausted", i |-> g.i, submit |-> <<>>]
    ELSE IF self.repos[g.i] \notin RepoTable
        THEN start_data_collection_skipping(self, [g EXCEPT !.i = @ + 1])
    ELSE [pc |-> "suspended", i |-> g.i + 1,
          submit |-> <<[repo_git |-> self.repos[g.i],
                        sig |-> [kind |-> "chain",
                                 tasks |-> [j \in 1..Len(self.jobs_dict) |->
                                    <<self.jobs_dict[j].job, self.repos[g.i]>>]]]>>]

\* One resumption of the generator start_data_collection(), from position
\* g.i of self.repos up to its next yield, its exception or its end.
start_data_collection(self, g) ==
    IF g.i > Len(self.repos)
        THEN [pc |-> "exhausted", i |-> g.i, submit |-> <<>>]     \* the loop ends
    ELSE IF QueryOne(self.repos[g.i]) = "NoResultFound"
        THEN [pc |-> "raised", i |-> g.i, submit |-> <<>>]        \* line 239
    ELSE [pc |-> "suspended", i |-> g.i + 1,
          submit |-> <<[repo_git |-> self.repos[g.i],
                        sig |-> CollectionChain(
                            CollectionSequence(self, self.repos[g.i]))]>>]

----------------------------------------------------------------------------
(* The job-execution engine and the caller of the generator                *)

\* apply_async(link_error=task_failed.s()): the chain as the engine holds it.
Dispatched(sub) ==
    [repo_git |-> sub.repo_git, kind |-> sub.sig.kind, tasks |-> sub.sig.tasks,
     started |-> {}, completed |-> {}, st |-> "inflight"]

\* A chain runs its tasks one after the other: a task is started once the
\* one before it has succeeded.  A group starts its tasks in any order.
MayStart(c, k) ==
    IF c.kind = "chain" THEN k = 1 \/ (k - 1) \in c.completed ELSE TRUE

\* The chain with this task id is dispatched and its outcome handler (the
\* closing success handler or the error sink) has not finished yet.
InFlight(id) ==
    \E n \in DOMAIN chains :
        TaskId(n) = id /\ chains[n].st \in {"inflight", "failed"}

----------------------------------------------------------------------------
(* Spec: a caller constructs a routine, pulls the generator and records    *)
(* each yielded task id, while the engine runs the dispatched chains.      *)

CandidateLists ==
    {<<"r1", "r2">>, <<"r2", "r1">>, <<"r1", "r1">>, <<"r1">>,
     <<"r1", "rX", "r2">>, <<"rX", "r1">>}

PhaseLists == UNION {[1..n -> PhaseFns] : n \in 1..MaxPhases}

\* The __setitem__ calls the caller makes: onto a default phase's name and
\* under a new name.
SetItemKeys == {"A", "C"}
SetItemJobs == {"B"}

\* The track whose chains this run dispatches.
HookTracks == {"core", "secondary"}

Init ==
    /\ collection_status = [r \in WithStatus |-> PendingRow]
    /\ now = 0
    /\ last = NoCall
    /\ worker = NoWorkers
    /\ routine \in {AugurTaskRoutine(rs, ps) : rs \in CandidateLists,
                                                ps \in PhaseLists}
    /\ gen = NoGen
    /\ chains = <<>>
    /\ caller \in [pending : {<<>>}, track : HookTracks, sets : {0}]
    /\ registry = NoRegistry
    /\ estimate = NoEstimate

\* The caller registers a phase before it starts the collection.
SetItem ==
    /\ gen.pc = "created"
    /\ caller.sets < MaxSetItems
    /\ \E key \in SetItemKeys, newJobs \in SetItemJobs :
           routine' = SetItemOf(routine, key, newJobs)
    /\ caller' = [caller EXCEPT !.sets = @ + 1]
    /\ UNCHANGED <<registry, estimate, collection_status, now, last, worker, gen, chains>>

\* A faulty variant: the generator itself sets the repository's track to
\* Collecting when it submits the chain.
PullMarking ==
    /\ gen.pc \in {"created", "suspended"}
    /\ caller.pending = <<>>
    /\ LET step == start_data_collection(routine, gen)
           task_id == TaskId(Len(chains) + 1)
       IN IF step.submit = <<>>
              THEN /\ gen' = [gen EXCEPT !.pc = step.pc, !.i = step.i]
                   /\ UNCHANGED <<chains, caller, collection_status>>
              ELSE /\ chains' = Append(chains, Dispatched(step.submit[1]))
                   /\ gen' = [pc |-> step.pc, i |-> step.i,
                              yielded |-> Append(gen.yielded,
                                  <<step.submit[1].repo_git, task_id>>)]
                   /\ caller' = [caller EXCEPT !.pending =
                                  <<step.submit[1].repo_git, task_id>>]
                   /\ collection_status' =
                          [collection_status EXCEPT ![step.submit[1].repo_git] =
                              [@ EXCEPT ![StatusCol(caller.track)] =
                                            CollectionState.COLLECTING]]
    /\ UNCHANGED <<registry, estimate, now, last, worker, routine>>

\* A faulty variant: the first pull submits the chain of every candidate
\* (the collection built as a list), later pulls only hand out the pairs.
PullEager ==
    /\ gen.pc \in {"created", "suspended"}
    /\ caller.pending = <<>>
    /\ LET step == start_data_collection(routine, gen)
       IN IF step.submit = <<>>
              THEN /\ gen' = [gen EXCEPT !.pc = step.pc, !.i = step.i]
                   /\ UNCHANGED <<chains, caller>>
              ELSE /\ chains' =
                          IF gen.pc = "created"
                              THEN [i \in DOMAIN routine.repos |->
                                       Dispatched([repo_git |-> routine.repos[i],
                                                   sig |-> CollectionChain(
                                                       CollectionSequence(routine,
                                                           routine.repos[i]))])]
                              ELSE chains
                   /\ gen' = [pc |-> step.pc, i |-> step.i,
                              yielded |-> Append(gen.yielded,
                                  <<step.submit[1].repo_git, TaskId(gen.i)>>)]
                   /\ caller' = [caller EXCEPT !.pending =
                                  <<step.submit[1].repo_git, TaskId(gen.i)>>]
    /\ UNCHANGED <<registry, estimate, collection_status, now, last, worker, routine>>

\* The caller pulls the next pair: the generator runs to its next yield.
Pull ==
    /\ gen.pc \in {"created", "suspended"}
    /\ caller.pending = <<>>
    /\ LET step == start_data_collection(routine, gen)
           task_id == TaskId(Len(chains) + 1)
       IN IF step.submit = <<>>
              THEN /\ gen' = [gen EXCEPT !.pc = step.pc, !.i = step.i]
                   /\ UNCHANGED <<chains, caller>>
              ELSE /\ chains' = Append(chains, Dispatched(step.submit[1]))
                   /\ gen' = [pc |-> step.pc, i |-> step.i,
                              yielded |-> Append(gen.yielded,
                                  <<step.submit[1].repo_git, task_id>>)]
                   /\ caller' = [caller EXCEPT !.pending =
                                  <<step.submit[1].repo_git, task_id>>]
    /\ UNCHANGED <<registry, estimate, collection_status, now, last, worker, routine>>

\* The caller records the yielded task id in its track of the row and sets
\* the track to Collecting.
Record ==
    /\ caller.pending # <<>>
    /\ collection_status' =
           [collection_status EXCEPT ![caller.pending[1]] =
               [@ EXCEPT ![TaskIdCol(caller.track)] = caller.pending[2],
                         ![StatusCol(caller.track)] = CollectionState.COLLECTING]]
    /\ caller' = [caller EXCEPT !.pending = <<>>]
    /\ UNCHANGED <<registry, estimate, now, last, worker, routine, gen, chains>>

PhaseStart(n, k) ==
    /\ chains[n].st = "inflight"
    /\ k \in DOMAIN chains[n].tasks
    /\ k \notin chains[n].started
    /\ MayStart(chains[n], k)
    /\ chains' = [chains EXCEPT ![n].started = @ \cup {k}]
    /\ UNCHANGED <<registry, estimate, collection_status, now, last, worker, routine, gen, caller>>

PhaseSucceed(n, k) ==
    /\ chains[n].st = "inflight"
    /\ k \in chains[n].started \ chains[n].completed
    /\ chains' = [chains EXCEPT ![n].completed = @ \cup {k}]
    /\ UNCHANGED <<registry, estimate, collection_status, now, last, worker, routine, gen, caller>>

PhaseFail(n, k) ==
    /\ chains[n].st = "inflight"
    /\ k \in chains[n].started \ chains[n].completed
    /\ chains' = [chains EXCEPT ![n].st = "failed"]
    /\ UNCHANGED <<registry, estimate, collection_status, now, last, worker, routine, gen, caller>>

\* After the last phase the chain runs the success handler of its track.
\* A handler that raises is a failed task of the chain.
ClosingSuccess(n) ==
    LET out == SuccessHandler(caller.track, collection_status,
                              chains[n].repo_git, now)
    IN /\ chains[n].st = "inflight"
       /\ chains[n].completed = DOMAIN chains[n].tasks
       /\ collection_status' = out.cs
       /\ chains' = [chains EXCEPT ![n].st = IF out.exc = None THEN "succeeded"
                                              ELSE "failed"]
       /\ UNCHANGED <<registry, estimate, now, last, worker, routine, gen, caller>>

\* The engine calls the error sink of a failed chain, once.
ErrorSink(n) ==
    LET out == task_failed(collection_status,
                           [id |-> TaskId(n), chain |-> "rest"])
    IN /\ chains[n].st = "failed"
       /\ collection_status' = out.cs
       /\ chains' = [chains EXCEPT ![n].st = "reported"]
       /\ UNCHANGED <<registry, estimate, now, last, worker, routine, gen, caller>>

Engine ==
    \E n \in DOMAIN chains :
        \/ \E k \in DOMAIN chains[n].tasks : PhaseStart(n, k)
        \/ \E k \in DOMAIN chains[n].tasks : PhaseSucceed(n, k)
        \/ \E k \in DOMAIN chains[n].tasks : PhaseFail(n, k)
        \/ ClosingSuccess(n)
        \/ ErrorSink(n)

Next ==
    \/ SetItem
    \/ Pull
    \/ Record
    \/ Engine

Spec == Init /\ [][Next]_vars

----------------------------------------------------------------------------
(* SpecRegistry: a caller constructs routines and registers phases on them. *)
(* Lists are objects: a routine keeps a reference to the list it was given. *)

MaxRegSets == 2

\* The list objects: "default" is the list the def statement of line 206
\* evaluated once for collection_phases=[]; "mine" is a list of the caller.
ListRefs == {"default", "mine"}
Insts == {"o1", "o2"}
CallerLists == {<<>>} \cup PhaseLists
RegKeys == {"A", "C"}
RegJobs == {"B", "A2"}

NoInstance ==
    [made |-> FALSE, ref |-> None, jobs_dict |-> <<>>, seen |-> <<>>,
     own |-> <<>>]

\* The routine object o as its methods see it: self.collection_phases is
\* whatever the list it refers to holds now.
SelfOf(o) ==
    [repos |-> <<"r1">>,
     collection_phases |-> registry.heap[registry.inst[o].ref],
     jobs_dict |-> registry.inst[o].jobs_dict]

InitRegistry ==
    /\ collection_status = [r \in WithStatus |-> PendingRow]
    /\ now = 0
    /\ last = NoCall
    /\ worker = NoWorkers
    /\ routine = NoRoutine
    /\ gen = NoGen
    /\ chains = <<>>
    /\ caller = NoCaller
    /\ estimate = NoEstimate
    /\ \E m \in CallerLists :
           registry = [heap |-> [l \in ListRefs |->
                                    IF l = "mine" THEN m ELSE <<>>],
                       mine0 |-> m,
                       inst |-> [o \in Insts |-> NoInstance],
                       sets |-> 0]

\* o = AugurTaskRoutine(session, repos) when ref = "default",
\* o = AugurTaskRoutine(session, repos, mine) when ref = "mine".
\* Line 210 stores the reference; lines 217-218 read the list as it is now.
Construct(o, ref) ==
    /\ ~registry.inst[o].made
    /\ LET self == AugurTaskRoutine(<<"r1">>, registry.heap[ref])
       IN registry' = [registry EXCEPT !.inst[o] =
                          [made |-> TRUE, ref |-> ref,
                           jobs_dict |-> self.jobs_dict,
                           seen |-> registry.heap[ref],
                           own |-> <<>>]]
    /\ UNCHANGED <<estimate, collection_status, now, last, worker, routine,
                   gen, chains, caller>>

\* o[key] = newJobs: line 229 appends to the list object o refers to,
\* line 230 assigns in o's own jobs_dict.
RegSetItem(o, key, newJobs) ==
    /\ registry.inst[o].made
    /\ registry.sets < MaxRegSets
    /\ LET self == SetItemOf(SelfOf(o), key, newJobs)
       IN registry' = [registry EXCEPT
                          !.heap[registry.inst[o].ref] = self.collection_phases,
                          !.inst[o].jobs_dict = self.jobs_dict,
                          !.inst[o].own = Append(@, <<key, newJobs>>),
                          !.sets = @ + 1]
    /\ UNCHANGED <<estimate, collection_status, now, last, worker, routine,
                   gen, chains, caller>>

NextRegistry ==
    \/ \E o \in Insts, ref \in ListRefs : Construct(o, ref)
    \/ \E o \in Insts, key \in RegKeys, newJobs \in RegJobs :
           RegSetItem(o, key, newJobs)

SpecRegistry == InitRegistry /\ [][NextRegistry]_vars

----------------------------------------------------------------------------
(* SpecWeight: the weight of a repository is computed from the counts the  *)
(* GitHub queries return and the days since its last collection.           *)

MaxIssues == 5
MaxPrs == 5
MaxDays == 10

\* Python's / on integers is true division; its result is kept here as the
\* exact quotient num/den with den > 0.
Quotient(a, b) == [num |-> a, den |-> b]
IntMinus(k, q) == [num |-> k * q.den - q.num, den |-> q.den]
QLess(p, q) == p.num * q.den < q.num * p.den
QIs(p, k) == p.num = k * p.den

\* A faulty variant: the square of the days instead of the cube.
date_weight_factor_squared(days_since_last_collection) ==
    Quotient(days_since_last_collection * days_since_last_collection, 25)

\* Line 152: (days_since_last_collection ** 3) / 25
date_weight_factor(days_since_last_collection) ==
    Quotient(days_since_last_collection * days_since_last_collection
                 * days_since_last_collection, 25)

\* Lines 162-164, for the collections the two queries returned.
get_repo_weight_by_issue(issues, prs, days_since_last_collection) ==
    LET number_of_issues_and_prs == issues + prs
    IN IntMinus(number_of_issues_and_prs,
                date_weight_factor(days_since_last_collection))

InitWeight ==
    /\ collection_status = [r \in WithStatus |-> PendingRow]
    /\ now = 0
    /\ last = NoCall
    /\ worker = NoWorkers
    /\ routine = NoRoutine
    /\ gen = NoGen
    /\ chains = <<>>
    /\ caller = NoCaller
    /\ registry = NoRegistry
    /\ estimate \in [issues : 0..MaxIssues, prs : 0..MaxPrs, days : 0..MaxDays,
                     pc : {"called"}, weight : {Quotient(0, 1)}]

Estimate ==
    /\ estimate.pc = "called"
    /\ estimate' = [estimate EXCEPT
                       !.pc = "returned",
                       !.weight = get_repo_weight_by_issue(estimate.issues,
                                      estimate.prs, estimate.days)]
    /\ UNCHANGED <<registry, collection_status, now, last, worker, routine,
                   gen, chains, caller>>

NextWeight == Estimate

SpecWeight == InitWeight /\ [][NextWeight]_vars

----------------------------------------------------------------------------
(* Claims about the handlers, checked under SpecHandlers and SpecConcurrent *)

Cols == DOMAIN PendingRow
TrackCols(t) == {StatusCol(t), TaskIdCol(t), LastCollectedCol(t)}

\* The tracks of the table `pre` whose task id is `id`, as <<repo_git, track>>.
MatchingTracks(pre, id) ==
    {rt \in (DOMAIN pre) \X Tracks : pre[rt[1]][TaskIdCol(rt[2])] = id}

\* C1: for every repository r with a status row and every track t, once the
\* success handler for t has run on r, t is Success, holds no task id and
\* was last collected at the current time, and every other column of r and
\* every other row is as it was before the handler ran.
C1_SuccessUpdatesOnlyItsTrack ==
    \A t \in Tracks, r \in WithStatus :
        (last.op = t /\ last.arg = r) =>
            /\ collection_status[r][StatusCol(t)] = CollectionState.SUCCESS
            /\ collection_status[r][TaskIdCol(t)] = None
            /\ collection_status[r][LastCollectedCol(t)] = Strftime(now)
            /\ \A c \in Cols \ TrackCols(t) :
                   collection_status[r][c] = last.pre[r][c]
            /\ \A q \in WithStatus \ {r} : collection_status[q] = last.pre[q]

\* C2: once the failure handler has run with the task id of some track,
\* every track that held that id is Error and holds no task id, and every
\* track that held another id (or none) has its status, task id and
\* last-collected time unchanged.
C2_FailureMarksMatchingTrack ==
    last.op = "task_failed" =>
        \A r \in WithStatus, t \in Tracks :
            IF <<r, t>> \in MatchingTracks(last.pre, last.arg.id)
                THEN /\ collection_status[r][StatusCol(t)] = CollectionState.ERROR
                     /\ collection_status[r][TaskIdCol(t)] = None
                ELSE \A c \in TrackCols(t) :
                         collection_status[r][c] = last.pre[r][c]

\* C3: the failure handler run with an id that no track of any row holds
\* raises nothing and leaves the whole table as it was.
C3_FailureWithoutMatchIsNoOp ==
    (last.op = "task_failed" /\ MatchingTracks(last.pre, last.arg.id) = {}) =>
        /\ last.exc = None
        /\ collection_status = last.pre

\* C4: when more than one track holds the failing id (on one row or on
\* several), the failure handler still sets each of them to Error with no
\* task id.
C4_FailureUpdatesEveryMatch ==
    (last.op = "task_failed"
        /\ Cardinality(MatchingTracks(last.pre, last.arg.id)) > 1) =>
        \A rt \in MatchingTracks(last.pre, last.arg.id) :
            /\ collection_status[rt[1]][StatusCol(rt[2])] = CollectionState.ERROR
            /\ collection_status[rt[1]][TaskIdCol(rt[2])] = None

\* C5: when the success handlers of two different tracks of one repository
\* have both run, in either order, both tracks are Success and hold no task id.
C5_ConcurrentSuccessesBothLand ==
    \A w \in Workers, v \in Workers :
        (/\ worker # NoWorkers
         /\ worker[w].st # "queued" /\ worker[v].st # "queued"
         /\ worker[w].repo_git = worker[v].repo_git
         /\ worker[w].track # worker[v].track) =>
            \A u \in {w, v} :
                /\ collection_status[worker[u].repo_git][StatusCol(worker[u].track)]
                       = CollectionState.SUCCESS
                /\ collection_status[worker[u].repo_git][TaskIdCol(worker[u].track)]
                       = None

\* C11: a success handler run for a repository that cannot be found, or
\* that has no status row, ends with an error (it does not return) and
\* leaves every field of the table as it was.
C11_SuccessOnMissingRepoRaises ==
    \A t \in Tracks :
        (last.op = t /\ last.arg \notin WithStatus) =>
            /\ last.exc # None
            /\ collection_status = last.pre

\* A success handler has run for a repository that does not exist, and one
\* for a repository without a status row.
C11_Witness ==
    /\ last.op \in Tracks
    /\ last.arg \in {"rX", "r0"}
    /\ last.exc # None

\* C12: no unexpected failure leaves an outcome handler: the failure handler
\* always returns, and a success handler returns unless the repository or
\* its status row is missing.
C12_NoUnexpectedErrorLeavesHandler ==
    last.op # None =>
        \/ last.exc = None
        \/ (last.op \in Tracks /\ last.arg \notin WithStatus)

\* C19: the failure handler run for a task that is not part of a chain
\* passes over the failed truncation, raises nothing, and sets every track
\* that holds the task's id to Error with no task id.
C19_FailureOutsideChainStillMarks ==
    (last.op = "task_failed" /\ last.arg.chain = "NoAttr") =>
        /\ last.exc = None
        /\ \A rt \in MatchingTracks(last.pre, last.arg.id) :
               /\ collection_status[rt[1]][StatusCol(rt[2])] = CollectionState.ERROR
               /\ collection_status[rt[1]][TaskIdCol(rt[2])] = None

----------------------------------------------------------------------------
(* Claims about the orchestrator, checked under Spec *)

Finished == gen.pc \in {"raised", "exhausted"}

YieldedRepos == [i \in DOMAIN gen.yielded |-> gen.yielded[i][1]]

\* No two registrations (phases passed to the constructor, phases set
\* through __setitem__) used the same name: every one of them added a key.
RegisteredNamesDistinct ==
    Len(routine.jobs_dict) = Len(routine.collection_phases)

\* What fully consuming the generator leaves when the chain of each
\* repository is made of the phases `phases`, in that order.
DispatchedInOrder(phases) ==
    /\ Len(chains) = Len(routine.repos)
    /\ \A i \in DOMAIN chains :
           chains[i].tasks =
               [j \in DOMAIN phases |-> <<phases[j], routine.repos[i]>>]
    /\ gen.yielded =
           [i \in DOMAIN routine.repos |-> <<routine.repos[i], TaskId(i)>>]

\* C6 (as stated): for any registered phase list [P1..Pn] and any candidate
\* list [r1..rm], once the generator is fully consumed there are exactly m
\* chains, the chain of ri is [P1(ri)..Pn(ri)] in registration order, and
\* the m pairs were yielded in candidate-list order.
C6_ChainPerRepoInRegistrationOrder ==
    gen.pc = "exhausted" => DispatchedInOrder(routine.collection_phases)

\* C6 (amended): the same, for phase lists registered under pairwise
\* distinct names.
C6_ChainPerRepoWhenNamesDistinct ==
    (gen.pc = "exhausted" /\ RegisteredNamesDistinct) =>
        DispatchedInOrder(routine.collection_phases)

\* Two repositories, two phases under distinct names, the generator
\* consumed, and the second chain ahead of the first.
C6_Witness ==
    /\ gen.pc = "exhausted"
    /\ RegisteredNamesDistinct
    /\ Len(routine.collection_phases) >= 2
    /\ Len(chains) = 2
    /\ chains[1].started = {}
    /\ 1 \in chains[2].completed

\* C7: in the chain of any one repository a phase is started only after the
\* phase before it has completed successfully, whatever the other chains do.
C7_PhaseStartsAfterItsPredecessor ==
    \A n \in DOMAIN chains :
        \A k \in chains[n].started : k > 1 => (k - 1) \in chains[n].completed

\* The second chain runs its second phase while the first chain has not
\* started: nothing orders the phases of different chains.
C7_Witness ==
    /\ Len(chains) = 2
    /\ chains[1].started = {}
    /\ 2 \in chains[2].started

RECURSIVE ExistingPrefix(_)
ExistingPrefix(repos) ==
    IF repos = <<>> \/ Head(repos) \notin RepoTable THEN <<>>
    ELSE <<Head(repos)>> \o ExistingPrefix(Tail(repos))

InRepoTable(repo_git) == repo_git \in RepoTable

\* C8 (as stated): a repository that does not exist is skipped and the
\* generator goes on: when it has finished, every existing repository of the
\* list, also one after a missing repository, has its chain and its pair.
C8_MissingRepoIsSkipped ==
    Finished =>
        /\ YieldedRepos = SelectSeq(routine.repos, InRepoTable)
        /\ Len(chains) = Len(YieldedRepos)

\* C8 (amended): the generator ends with the lookup's exception at the first
\* repository that does not exist: the repositories before it have their
\* chains and pairs, and neither it nor any repository after it has one.
C8_MissingRepoEndsTheGenerator ==
    Finished =>
        /\ YieldedRepos = ExistingPrefix(routine.repos)
        /\ Len(chains) = Len(YieldedRepos)
        /\ (gen.pc = "raised") =
               (\E i \in DOMAIN routine.repos : routine.repos[i] \notin RepoTable)

\* The generator raised at a missing repository after one yield, with an
\* existing repository still behind it in the list.
C8_Witness ==
    /\ gen.pc = "raised"
    /\ Len(gen.yielded) = 1
    /\ gen.i < Len(routine.repos)
    /\ routine.repos[gen.i + 1] \in RepoTable

\* C13: a step of the generator (a pull, whether it yields, ends or raises)
\* changes no status, task id or last-collected time of any row.
C13_GeneratorLeavesTableAlone ==
    [][gen' # gen => collection_status' = collection_status]_vars

\* Two pulls have completed and the row of the second repository, whose
\* chain is dispatched, is still as registration left it.
C13_Witness ==
    /\ gen.pc = "suspended"
    /\ Len(gen.yielded) = 2
    /\ caller.pending # <<>>
    /\ routine.repos[2] # routine.repos[1]
    /\ collection_status[routine.repos[2]] = PendingRow

\* Nothing is left to run: the generator has ended, the caller has recorded
\* what it was handed, and every chain has had its outcome handler run.
Quiescent ==
    /\ Finished
    /\ caller.pending = <<>>
    /\ \A n \in DOMAIN chains : chains[n].st \in {"succeeded", "reported"}

\* C17: the failure of a chain surfaces in the table: once everything has
\* run, no track still holds the task id of a failed chain, and the track of
\* a repository whose latest chain failed is Error.
C17_FailureSurfacesAsError ==
    Quiescent =>
        \A n \in DOMAIN chains :
            chains[n].st = "reported" =>
                /\ collection_status[chains[n].repo_git][TaskIdCol(caller.track)]
                       # TaskId(n)
                /\ (\A m \in DOMAIN chains :
                        m > n => chains[m].repo_git # chains[n].repo_git)
                    => collection_status[chains[n].repo_git][StatusCol(caller.track)]
                           = CollectionState.ERROR

\* C18: no chain is submitted before the first pull; after k completed pulls
\* exactly k chains are submitted, those of the first k candidates in list
\* order, and k pairs were yielded for them.
C18_OneChainPerPull ==
    /\ gen.pc = "created" => chains = <<>>
    /\ Len(chains) = gen.i - 1
    /\ Len(gen.yielded) = gen.i - 1
    /\ \A i \in DOMAIN chains :
           /\ chains[i].repo_git = routine.repos[i]
           /\ gen.yielded[i] = <<routine.repos[i], TaskId(i)>>

\* One pull has completed and its chain has run to its end, while the second
\* candidate, not pulled yet, has no chain.
C18_Witness ==
    /\ gen.pc = "suspended"
    /\ Len(routine.repos) = 2
    /\ Len(chains) = 1
    /\ chains[1].st = "reported"

\* C10: a track holds a task id only while the chain with that id is in
\* flight, whatever the order in which the caller records the id and the
\* engine runs the chain and its handlers.
C10_TaskIdOnlyWhileInFlight ==
    \A r \in DOMAIN collection_status, t \in Tracks :
        collection_status[r][TaskIdCol(t)] # None =>
            InFlight(collection_status[r][TaskIdCol(t)])

----------------------------------------------------------------------------
(* Claims about the phase registry, checked under SpecRegistry *)

Made == {o \in Insts : registry.inst[o].made}

\* The list the caller wrote in the constructor call of a routine.
Intended(ref) == IF ref = "default" THEN <<>> ELSE registry.mine0

RECURSIVE ApplySets(_, _)
ApplySets(d, sets) ==
    IF sets = <<>> THEN d
    ELSE ApplySets(DictSet(d, Head(sets)[1], Head(sets)[2]), Tail(sets))

\* C14: the registry of an instance is its own: the caller's list is never
\* changed, and the phases an instance puts into its chains are those of
\* its own constructor call and of the set operations made on it alone.
C14_RegistryOwnedByInstance ==
    /\ registry.heap["mine"] = registry.mine0
    /\ \A o \in Made :
           registry.inst[o].jobs_dict =
               ApplySets(AssembleDefaultPhases(<<>>,
                             Intended(registry.inst[o].ref)),
                         registry.inst[o].own)

\* Every registration a routine has seen, as (name, constructor), in order:
\* the phases of the list it was constructed with, then its set operations.
Registrations(o) ==
    [j \in DOMAIN registry.inst[o].seen |->
        <<PhaseName(registry.inst[o].seen[j]), registry.inst[o].seen[j]>>]
    \o registry.inst[o].own

\* The names of a registration log, each once, in order of first occurrence.
RECURSIVE FirstNames(_)
FirstNames(log) ==
    IF log = <<>> THEN <<>>
    ELSE LET before == FirstNames(SubSeq(log, 1, Len(log) - 1))
             name == log[Len(log)][1]
         IN IF \E j \in DOMAIN before : before[j] = name THEN before
            ELSE Append(before, name)

\* The constructor most recently registered under a name.
LastUnder(log, name) ==
    log[CHOOSE j \in DOMAIN log :
            /\ log[j][1] = name
            /\ \A k \in DOMAIN log : k > j => log[k][1] # name][2]

\* C16 (as stated): the chain assembled for a repository has exactly one
\* task per entry of the routine's phase list, in the order of the list.
C16_ChainFollowsPhaseList ==
    \A o \in Made :
        CollectionSequence(SelfOf(o), "r1") =
            [j \in DOMAIN SelfOf(o).collection_phases |->
                <<SelfOf(o).collection_phases[j], "r1">>]

\* C16 (amended): the chain has exactly one task per distinct registered
\* name, in the order in which the names were first registered, made by the
\* constructor most recently registered under the name; every constructor of
\* the chain is an entry of the phase list.
C16_ChainFollowsDistinctNames ==
    \A o \in Made :
        LET log == Registrations(o)
            names == FirstNames(log)
            seq == CollectionSequence(SelfOf(o), "r1")
        IN /\ seq = [j \in DOMAIN names |-> <<LastUnder(log, names[j]), "r1">>]
           /\ \A j \in DOMAIN seq :
                  \E k \in DOMAIN SelfOf(o).collection_phases :
                      SelfOf(o).collection_phases[k] = seq[j][1]

\* A routine constructed with two phases, one of whose names was registered
\* again by a set operation: fewer tasks in the chain than registrations.
C16_Witness ==
    \E o \in Made :
        /\ Len(registry.inst[o].seen) = 2
        /\ registry.inst[o].own # <<>>
        /\ Len(registry.inst[o].jobs_dict) = 2
        /\ Len(Registrations(o)) = 3

----------------------------------------------------------------------------
(* Claims about the weight, checked under SpecWeight *)

====
